---------------------------- MODULE Spec2Model ----------------------------
(***************************************************************************)
(* gofiber/csrf: the CSRF middleware of src/main.go.                       *)
(*                                                                         *)
(* New(config...) resolves the configuration, selects one extractor and    *)
(* returns the request handler.  The handler resolves the expected token   *)
(* (the CSRF cookie, or a new UUID string), validates the claimed token of *)
(* requests with a non-safe method, and on success writes the cookie, the  *)
(* context value and the Vary header and calls the next handler.           *)
(*                                                                         *)
(* Representation.  A token (cookie value, header value, ...) is a         *)
(* sequence of bytes; the empty string is <<>>.  Names (cookie names,      *)
(* header/form/query/param keys, context keys) are strings.  The           *)
(* TokenLookup string is a sequence of chunks, a chunk being either the    *)
(* separator ":" or a piece without a colon, so that strings.Split is      *)
(* computed and not assumed.                                               *)
(***************************************************************************)
EXTENDS Integers, Sequences, FiniteSets, TLC

VARIABLES
    pc,         \* "new": New not yet called; "panic": New panicked;
                \* "idle": handler returned by New, no request in flight;
                \* "done": the handler has returned for req
    args,       \* the variadic config argument of New (<<>> or <<config>>)
    cfg,        \* New's local cfg, captured by the handler closure
    extractor,  \* New's local extractor, captured by the handler closure
    req,        \* the request (fiber.Ctx input side) last handled
    resp,       \* what the handler did to the fiber.Ctx of req
    other,      \* a second request handled by the same handler, with its effects
    jar,        \* cookie store of the client of a session: cookie name -> value
    log,        \* token values carried by the committed responses of a session
    calls,      \* the invocations of the handler in flight: slot -> position,
                \* request and effects so far
    frames,     \* storage of the handler's local variable token: frame -> value
    cmp         \* one comparison of an expected token with two claimed
                \* tokens: operands, results and costs

vars == <<pc, args, cfg, extractor, req, resp, other, jar, log, calls, frames, cmp>>

----------------------------------------------------------------------------
(* Bounds and input sets *)

\* A request carries at most MaxFields cookies/headers/form/query/path values.
MaxFields == 2

\* The tokens given to a comparison have at most MaxTokenLen bytes.
MaxTokenLen == 3

\* The handler runs for at most MaxInFlight requests at the same time.
MaxInFlight == 2

\* Token length and cookie max-age applied when the option is zero.
DefaultTokenLength == 32
DefaultCookieMaxAge == 86400

\* Length of the string form of a UUID (8-4-4-4-12 hexadecimal digits).
UUIDStringLen == 36

Empty == <<>>

\* Values a client can make up: two of equal length, and one longer that
\* has another as a prefix.
ClientTokens == {<<1>>, <<2>>, <<1, 2>>}

\* Values uuid.New().String() may return.
UUIDs == {[i \in 1..UUIDStringLen |-> 1], [i \in 1..UUIDStringLen |-> 2]}

\* Reading of time.Now(), in seconds.
Times == {100}

SafeMethods == {"GET", "HEAD", "OPTIONS", "TRACE"}
Methods == SafeMethods \cup {"POST", "DELETE"}

CookieNames == {"_csrf", "sid"}
Keys == {"X-CSRF-Token", "k"}
Surfaces == {"header", "form", "query", "param"}

Locations ==
    {<<"cookie", n>> : n \in CookieNames} \cup (Surfaces \X Keys)

----------------------------------------------------------------------------
(* Requests: the input side of fiber.Ctx *)

Loc(f) == <<f.surface, f.name>>

FieldsOver(vals) ==
    {[surface |-> l[1], name |-> l[2], value |-> v] : l \in Locations, v \in vals}

\* Sets of at most n fields, no two at the same location.
RECURSIVE FieldSets(_, _)
FieldSets(vals, n) ==
    IF n = 0 THEN {{}}
    ELSE LET S == FieldSets(vals, n - 1)
         IN S \cup {F \cup {f} : <<F, f>> \in
                      {p \in S \X FieldsOver(vals) :
                          \A g \in p[1] : Loc(g) # Loc(p[2])}}

\* filter is what the configured bypass predicate returns for the request.
RequestsOver(vals) ==
    [method : Methods, fields : FieldSets(vals, MaxFields), filter : BOOLEAN]

Requests == RequestsOver(ClientTokens)

NoRequest == [method |-> "", fields |-> {}, filter |-> FALSE]

\* The value at a location of the request, "" when absent.
Value(c, surface, name) ==
    LET F == {f \in c.fields : f.surface = surface /\ f.name = name}
    IN IF F = {} THEN Empty ELSE (CHOOSE f \in F : TRUE).value

Cookies(c, name) == Value(c, "cookie", name)
Get(c, name) == Value(c, "header", name)
Query(c, name) == Value(c, "query", name)
Params(c, name) == Value(c, "param", name)
FormValue(c, name) == Value(c, "form", name)

----------------------------------------------------------------------------
(* Configuration *)

ZeroConfig ==
    [Filter |-> FALSE, TokenLength |-> 0, TokenLookup |-> <<>>,
     ContextKey |-> "", CookieName |-> "", CookieDomain |-> "",
     CookiePath |-> "", CookieMaxAge |-> 0, CookieSecure |-> FALSE,
     CookieHTTPOnly |-> FALSE]

\* TokenLookup strings: well-formed ones for each source, an unrecognized
\* source, an empty source, an empty key, a second colon, and no colon.
Lookups ==
    { <<"header", ":", "k">>, <<"form", ":", "k">>, <<"query", ":", "k">>, <<"param", ":", "k">>,
      <<"bogus", ":", "k">>, <<":", "k">>, <<"header", ":">>,
      <<"form", ":", "k", ":", "X-CSRF-Token">>, <<"nocolon">> }

AllSet ==
    [Filter |-> FALSE, TokenLength |-> 16, TokenLookup |-> <<"query", ":", "k">>,
     ContextKey |-> "tok", CookieName |-> "sid", CookieDomain |-> "example.com",
     CookiePath |-> "/app", CookieMaxAge |-> 60, CookieSecure |-> TRUE,
     CookieHTTPOnly |-> TRUE]

\* The zero configuration, every option set alone (the lookup to each of
\* Lookups), and all options set together.
ConfigInputs ==
    {ZeroConfig, AllSet, [AllSet EXCEPT !.Filter = TRUE],
     [ZeroConfig EXCEPT !.Filter = TRUE]}
    \cup {[ZeroConfig EXCEPT !.TokenLookup = l] : l \in Lookups}
    \cup {[ZeroConfig EXCEPT ![o] = AllSet[o]] :
            o \in DOMAIN ZeroConfig \ {"TokenLookup", "Filter"}}

ConfigArgs == {<<>>} \cup {<<c>> : c \in ConfigInputs}

----------------------------------------------------------------------------
(* New: configuration defaulting and extractor selection *)

\* Lines 70-88: the zero value of each defaulted option is replaced.
ApplyDefaults(config) ==
    LET c0 == IF Len(config) > 0 THEN config[1] ELSE ZeroConfig
        c1 == IF c0.TokenLength = 0
              THEN [c0 EXCEPT !.TokenLength = DefaultTokenLength] ELSE c0
        c2 == IF c1.TokenLookup = <<>>
              THEN [c1 EXCEPT !.TokenLookup = <<"header", ":", "X-CSRF-Token">>]
              ELSE c1
        c3 == IF c2.ContextKey = "" THEN [c2 EXCEPT !.ContextKey = "csrf"] ELSE c2
        c4 == IF c3.CookieName = "" THEN [c3 EXCEPT !.CookieName = "_csrf"] ELSE c3
        c5 == IF c4.CookieMaxAge = 0
              THEN [c4 EXCEPT !.CookieMaxAge = DefaultCookieMaxAge] ELSE c4
    IN c5

\* strings.Split(s, ":") on a chunk sequence: the pieces between separators.
RECURSIVE SplitFrom(_, _, _)
SplitFrom(s, i, cur) ==
    IF i > Len(s) THEN <<cur>>
    ELSE IF s[i] = ":" THEN <<cur>> \o SplitFrom(s, i + 1, "")
    ELSE SplitFrom(s, i + 1, cur \o s[i])

Split(s) == SplitFrom(s, 1, "")

csrfFromHeader(param) == [source |-> "header", param |-> param]
csrfFromQuery(param) == [source |-> "query", param |-> param]
csrfFromParam(param) == [source |-> "param", param |-> param]
csrfFromForm(param) == [source |-> "form", param |-> param]

NoExtractor == [source |-> "", param |-> ""]

\* Mutant: the param source is not recognized and falls back to the header.
SelectExtractor_NoParam(parts) ==
    CASE parts[1] = "form" -> csrfFromForm(parts[2])
      [] parts[1] = "query" -> csrfFromQuery(parts[2])
      [] OTHER -> csrfFromHeader(parts[2])

\* Lines 90-98, for parts with at least two elements.
SelectExtractor(parts) ==
    CASE parts[1] = "form" -> csrfFromForm(parts[2])
      [] parts[1] = "query" -> csrfFromQuery(parts[2])
      [] parts[1] = "param" -> csrfFromParam(parts[2])
      [] OTHER -> csrfFromHeader(parts[2])

\* parts[1] of the Go code (index 1) does not exist: index out of range.
NewPanics(config) == Len(Split(ApplyDefaults(config).TokenLookup)) < 2

----------------------------------------------------------------------------
(* The handler *)

\* sends and nextCalls count the calls of c.SendStatus and c.Next.
NoResponse ==
    [status |-> 0, sends |-> 0, cookies |-> <<>>, locals |-> <<>>, vary |-> <<>>,
     nextCalls |-> 0, generated |-> <<>>, extracted |-> <<>>]

\* Mutant: an empty value is returned without an error.
Extract_NoError(ex, c) ==
    LET token == CASE ex.source = "form" -> FormValue(c, ex.param)
                   [] ex.source = "query" -> Query(c, ex.param)
                   [] ex.source = "param" -> Params(c, ex.param)
                   [] OTHER -> Get(c, ex.param)
    IN [token |-> token, err |-> FALSE]

\* Mutant: an empty value at the configured location falls back to the form
\* field of the same name.
Extract_FormFallback(ex, c) ==
    LET t0 == CASE ex.source = "form" -> FormValue(c, ex.param)
                [] ex.source = "query" -> Query(c, ex.param)
                [] ex.source = "param" -> Params(c, ex.param)
                [] OTHER -> Get(c, ex.param)
        token == IF t0 = Empty THEN FormValue(c, ex.param) ELSE t0
    IN IF token = Empty THEN [token |-> Empty, err |-> TRUE]
       ELSE [token |-> token, err |-> FALSE]

\* Lines 152-193: the extractor closures.
Extract(ex, c) ==
    LET token == CASE ex.source = "form" -> FormValue(c, ex.param)
                   [] ex.source = "query" -> Query(c, ex.param)
                   [] ex.source = "param" -> Params(c, ex.param)
                   [] OTHER -> Get(c, ex.param)
    IN IF token = Empty THEN [token |-> Empty, err |-> TRUE]
       ELSE [token |-> token, err |-> FALSE]

\* Bitwise operations on bytes.
RECURSIVE BitXor(_, _)
BitXor(a, b) ==
    IF a = 0 /\ b = 0 THEN 0
    ELSE (((a % 2) + (b % 2)) % 2) + (2 * BitXor(a \div 2, b \div 2))

RECURSIVE BitOr(_, _)
BitOr(a, b) ==
    IF a = 0 /\ b = 0 THEN 0
    ELSE (IF (a % 2) = 1 \/ (b % 2) = 1 THEN 1 ELSE 0) + (2 * BitOr(a \div 2, b \div 2))

RECURSIVE XorFold(_, _, _, _)
XorFold(x, y, i, v) ==
    IF i > Len(x) THEN v
    ELSE XorFold(x, y, i + 1, BitOr(v, BitXor(x[i], y[i])))

\* The iterations of the loop of XorFold from index i on: one for every byte,
\* the loop having no exit other than the end of x.
RECURSIVE XorFoldSteps(_, _, _)
XorFoldSteps(x, y, i) ==
    IF i > Len(x) THEN 0 ELSE 1 + XorFoldSteps(x, y, i + 1)

\* Mutant: the loop is left at the first pair of different bytes.
CompareSteps_ShortCircuit(x, y) ==
    IF Len(x) # Len(y) THEN 0
    ELSE LET D == {i \in 1..Len(x) : x[i] # y[i]}
         IN IF D = {} THEN Len(x) ELSE CHOOSE i \in D : \A j \in D : i <= j

\* The cost of ConstantTimeCompare(x, y), in iterations of its loop.
CompareSteps(x, y) ==
    IF Len(x) # Len(y) THEN 0 ELSE XorFoldSteps(x, y, 1)

\* Mutant: only the bytes up to the shorter length are compared.
ConstantTimeCompare_Prefix(x, y) ==
    LET n == IF Len(x) < Len(y) THEN Len(x) ELSE Len(y)
    IN IF \A i \in 1..n : x[i] = y[i] THEN 1 ELSE 0

\* Mutant: the result is inverted, as by testing == 1 for the rejection.
ConstantTimeCompare_Inverted(x, y) ==
    IF Len(x) # Len(y) THEN 1
    ELSE IF XorFold(x, y, 1, 0) = 0 THEN 0 ELSE 1

\* Mutant: only the lengths are compared.
ConstantTimeCompare_LengthOnly(x, y) == IF Len(x) # Len(y) THEN 0 ELSE 1

\* crypto/subtle.ConstantTimeCompare: 1 when equal, 0 otherwise; 0 at once
\* when the lengths differ.
ConstantTimeCompare(x, y) ==
    IF Len(x) # Len(y) THEN 0
    ELSE IF XorFold(x, y, 1, 0) = 0 THEN 1 ELSE 0

\* Mutant: a configured predicate bypasses whatever it returns.
Bypassed_Configured(c, r) == c.Filter

\* Line 101.
Bypassed(c, r) == c.Filter /\ r.filter

\* Mutant: a new token is generated on every request.
TokenSource_Rotate(key, u) == u

\* Mutant: a cookie that does not look like a UUID string is replaced.
TokenSource_FormatCheck(key, u) ==
    IF key = Empty \/ Len(key) # UUIDStringLen THEN u ELSE key

\* Lines 105-111: the expected token, u being the result of uuid.New().String().
TokenSource(key, u) == IF key = Empty THEN u ELSE key

\* Mutant: TRACE is validated like a non-safe method.
IsSafe_NoTrace(method) == method \in {"GET", "HEAD", "OPTIONS"}

\* Line 113.
IsSafe(method) == method \in {"GET", "HEAD", "OPTIONS", "TRACE"}

\* Lines 127-139.
NewCookie(c, token, now) ==
    [Name |-> c.CookieName, Value |-> token,
     Path |-> IF c.CookiePath # "" THEN c.CookiePath ELSE "",
     Domain |-> IF c.CookieDomain # "" THEN c.CookieDomain ELSE "",
     Expires |-> now + c.CookieMaxAge,
     Secure |-> c.CookieSecure, HTTPOnly |-> c.CookieHTTPOnly]

\* Mutant: the Vary header is not set.
Commit_NoVary(c, w, token, now) ==
    [w EXCEPT !.cookies = Append(@, NewCookie(c, token, now)),
              !.locals = Append(@, <<c.ContextKey, token>>),
              !.nextCalls = @ + 1]

\* Lines 126-147.
Commit(c, w, token, now) ==
    [w EXCEPT !.cookies = Append(@, NewCookie(c, token, now)),
              !.locals = Append(@, <<c.ContextKey, token>>),
              !.vary = Append(@, "Cookie"),
              !.nextCalls = @ + 1]

\* Mutant: cookie, context value and Vary header are written before the
\* validation.
Handler_CommitFirst(c, ex, r, u, now) ==
    IF Bypassed(c, r) THEN [NoResponse EXCEPT !.nextCalls = 1]
    ELSE LET key == Cookies(r, c.CookieName)
             token == TokenSource(key, u)
             w0 == [NoResponse EXCEPT
                      !.generated = IF key = Empty THEN <<u>> ELSE <<>>]
             wc == [Commit(c, w0, token, now) EXCEPT !.nextCalls = 0]
         IN IF IsSafe(r.method) THEN Commit(c, w0, token, now)
            ELSE LET e == Extract(ex, r)
                     w1 == [wc EXCEPT !.extracted = <<e>>]
                 IN IF e.err THEN [w1 EXCEPT !.status = 400, !.sends = @ + 1]
                    ELSE IF ConstantTimeCompare(token, e.token) # 1
                         THEN [w1 EXCEPT !.status = 403, !.sends = @ + 1]
                         ELSE [w1 EXCEPT !.nextCalls = 1]

\* Lines 99-148: the effects of the handler on the context of request r.
Handler(c, ex, r, u, now) ==
    IF Bypassed(c, r) THEN [NoResponse EXCEPT !.nextCalls = 1]
    ELSE LET key == Cookies(r, c.CookieName)
             token == TokenSource(key, u)
             w0 == [NoResponse EXCEPT
                      !.generated = IF key = Empty THEN <<u>> ELSE <<>>]
         IN IF IsSafe(r.method) THEN Commit(c, w0, token, now)
            ELSE LET e == Extract(ex, r)
                     w1 == [w0 EXCEPT !.extracted = <<e>>]
                 IN IF e.err THEN [w1 EXCEPT !.status = 400, !.sends = @ + 1]
                    ELSE IF ConstantTimeCompare(token, e.token) # 1
                         THEN [w1 EXCEPT !.status = 403, !.sends = @ + 1]
                         ELSE Commit(c, w1, token, now)

----------------------------------------------------------------------------
(* Actions *)

NoOther == [req |-> NoRequest, resp |-> NoResponse]

EmptyJar == [n \in CookieNames |-> Empty]

Slots == 1..MaxInFlight

NoCall == [pc |-> "idle", req |-> NoRequest, w |-> NoResponse]
NoCalls == [s \in Slots |-> NoCall]
NoFrames == [f \in 0..MaxInFlight |-> Empty]

NoCompare ==
    [pc |-> "off", x |-> Empty, y1 |-> Empty, y2 |-> Empty,
     r1 |-> 0, r2 |-> 0, n1 |-> 0, n2 |-> 0]

Init ==
    /\ pc = "new"
    /\ args = <<>>
    /\ cfg = ZeroConfig
    /\ extractor = NoExtractor
    /\ req = NoRequest
    /\ resp = NoResponse
    /\ other = NoOther
    /\ jar = EmptyJar
    /\ log = {}
    /\ calls = NoCalls
    /\ frames = NoFrames
    /\ cmp = NoCompare

\* New(config...): lines 68-98.
New ==
    /\ pc = "new"
    /\ \E config \in ConfigArgs :
        /\ args' = config
        /\ cfg' = ApplyDefaults(config)
        /\ IF NewPanics(config)
           THEN pc' = "panic" /\ UNCHANGED extractor
           ELSE /\ pc' = "idle"
                /\ extractor' = SelectExtractor(Split(ApplyDefaults(config).TokenLookup))
    /\ UNCHANGED <<req, resp, other, jar, log, calls, frames, cmp>>

\* The predicate is consulted only when configured.
FilterResults == IF cfg.Filter THEN BOOLEAN ELSE {FALSE}

\* The handler runs on a request of any client.
Serve ==
    /\ pc = "idle"
    /\ \E r \in Requests, u \in UUIDs, now \in Times :
        /\ r.filter \in FilterResults
        /\ req' = r
        /\ resp' = Handler(cfg, extractor, r, u, now)
    /\ pc' = "done"
    /\ UNCHANGED <<args, cfg, extractor, other, jar, log, calls, frames, cmp>>

\* The response is sent and the context released.
Release ==
    /\ pc = "done"
    /\ pc' = "idle"
    /\ req' = NoRequest
    /\ resp' = NoResponse
    /\ other' = NoOther
    /\ UNCHANGED <<args, cfg, extractor, jar, log, calls, frames, cmp>>

Next == New \/ Serve \/ Release

Spec == Init /\ [][Next]_vars

----------------------------------------------------------------------------
(* A session: one client that keeps the cookies it is sent *)

\* The client starts without cookies or with one cookie it made up.
Jars ==
    {EmptyJar} \cup
    {[EmptyJar EXCEPT ![n] = v] : n \in CookieNames, v \in ClientTokens}

JarFields(j) ==
    {[surface |-> "cookie", name |-> n, value |-> j[n]] :
        n \in {m \in CookieNames : j[m] # Empty}}

\* The client knows the values it can make up and those it was sent.
Known(j) == ClientTokens \cup {j[n] : n \in {m \in CookieNames : j[m] # Empty}}

SessionFieldSets == FieldSets(ClientTokens \cup UUIDs, MaxFields)

\* The requests of the session send back exactly the cookies of the jar and
\* carry known values only.
SessionRequests(j) ==
    [method : Methods,
     fields : {F \in SessionFieldSets :
                 /\ {f \in F : f.surface = "cookie"} = JarFields(j)
                 /\ \A f \in F : f.value \in Known(j)},
     filter : BOOLEAN]

\* The token values a response carries, in Set-Cookie and in the context.
TokensOf(w) ==
    {w.cookies[i].Value : i \in DOMAIN w.cookies}
    \cup {w.locals[i][2] : i \in DOMAIN w.locals}

InitSession ==
    /\ pc = "new"
    /\ args = <<>>
    /\ cfg = ZeroConfig
    /\ extractor = NoExtractor
    /\ req = NoRequest
    /\ resp = NoResponse
    /\ other = NoOther
    /\ jar \in Jars
    /\ log = {}
    /\ calls = NoCalls
    /\ frames = NoFrames
    /\ cmp = NoCompare

\* The handler runs on the next request of the session.
ServeSession ==
    /\ pc = "idle"
    /\ \E r \in SessionRequests(jar), u \in UUIDs, now \in Times :
        /\ r.filter \in FilterResults
        /\ req' = r
        /\ resp' = Handler(cfg, extractor, r, u, now)
        /\ log' = log \cup TokensOf(Handler(cfg, extractor, r, u, now))
    /\ pc' = "done"
    /\ UNCHANGED <<args, cfg, extractor, other, jar, calls, frames, cmp>>

\* The client stores the cookies of the response.
StoreCookies(j, w) ==
    [n \in CookieNames |->
        IF \E i \in DOMAIN w.cookies : w.cookies[i].Name = n
        THEN w.cookies[CHOOSE i \in DOMAIN w.cookies :
                          /\ w.cookies[i].Name = n
                          /\ \A k \in DOMAIN w.cookies :
                                w.cookies[k].Name = n => k <= i].Value
        ELSE j[n]]

Receive ==
    /\ pc = "done"
    /\ pc' = "idle"
    /\ jar' = StoreCookies(jar, resp)
    /\ req' = NoRequest
    /\ resp' = NoResponse
    /\ UNCHANGED <<args, cfg, extractor, other, log, calls, frames, cmp>>

NextSession == New \/ ServeSession \/ Receive

SpecSession == InitSession /\ [][NextSession]_vars

----------------------------------------------------------------------------
(* Two requests served by the same handler *)

\* The request reduced to its method, its CSRF cookie and the value at the
\* configured location.
Strip(c, ex, r) ==
    [r EXCEPT !.fields =
        {f \in @ : \/ f.surface = "cookie" /\ f.name = c.CookieName
                   \/ f.surface = ex.source /\ f.name = ex.param}]

\* The handler runs on a request and, independently, on the request that
\* agrees with it on method, cookie and configured location and carries
\* nothing else.  Two calls of uuid.New() return different values.
ServePair ==
    /\ pc = "idle"
    /\ \E r \in Requests, f2 \in FilterResults, u \in UUIDs, u2 \in UUIDs,
          now \in Times :
        /\ u2 # u
        /\ r.filter \in FilterResults
        /\ req' = r
        /\ resp' = Handler(cfg, extractor, r, u, now)
        /\ LET r2 == [Strip(cfg, extractor, r) EXCEPT !.filter = f2]
           IN other' = [req |-> r2, resp |-> Handler(cfg, extractor, r2, u2, now)]
    /\ pc' = "done"
    /\ UNCHANGED <<args, cfg, extractor, jar, log, calls, frames, cmp>>

NextPair == New \/ ServePair \/ Release

SpecPair == Init /\ [][NextPair]_vars

----------------------------------------------------------------------------
(* The comparison alone: line 121 on given byte strings *)

CompareBytes == {1, 2}

\* The byte strings of at most MaxTokenLen bytes.
CompareTokens == UNION {[1..k -> CompareBytes] : k \in 0..MaxTokenLen}

\* An expected token x and two claimed tokens y1, y2 to compare with it.
InitCompare ==
    /\ pc = "new"
    /\ args = <<>>
    /\ cfg = ZeroConfig
    /\ extractor = NoExtractor
    /\ req = NoRequest
    /\ resp = NoResponse
    /\ other = NoOther
    /\ jar = EmptyJar
    /\ log = {}
    /\ calls = NoCalls
    /\ frames = NoFrames
    /\ \E x \in CompareTokens, y1 \in CompareTokens, y2 \in CompareTokens :
         cmp = [NoCompare EXCEPT !.pc = "ready", !.x = x, !.y1 = y1, !.y2 = y2]

\* subtle.ConstantTimeCompare([]byte(token), []byte(clientToken)) for both
\* claimed tokens.
Compare ==
    /\ cmp.pc = "ready"
    /\ cmp' = [cmp EXCEPT !.pc = "compared",
                          !.r1 = ConstantTimeCompare(cmp.x, cmp.y1),
                          !.r2 = ConstantTimeCompare(cmp.x, cmp.y2),
                          !.n1 = CompareSteps(cmp.x, cmp.y1),
                          !.n2 = CompareSteps(cmp.x, cmp.y2)]
    /\ UNCHANGED <<pc, args, cfg, extractor, req, resp, other, jar, log, calls, frames>>

NextCompare == Compare

SpecCompare == InitCompare /\ [][NextCompare]_vars

----------------------------------------------------------------------------
(* Concurrent invocations of one handler, statement by statement *)

\* The config arguments the shared handler was built from.
ConcConfigs ==
    {<<>>,
     <<[ZeroConfig EXCEPT !.Filter = TRUE, !.TokenLookup = <<"query", ":", "k">>]>>}

ConcMethods == {"GET", "POST"}
ConcCookies == {Empty, <<1>>}
ConcClaims == {Empty, <<1>>, <<2>>}

ConcField(surface, name, v) ==
    IF v = Empty THEN {}
    ELSE {[surface |-> surface, name |-> name, value |-> v]}

\* Requests that differ in what the handler built from c reads of them: the
\* method, the cookie, what the predicate returns and, for a method that is
\* validated, the value at the location of the extractor.
ConcRequests(c, ex) ==
    {r \in {[method |-> m,
             fields |-> ConcField("cookie", c.CookieName, k)
                        \cup ConcField(ex.source, ex.param, t),
             filter |-> f] :
               m \in ConcMethods, k \in ConcCookies, t \in ConcClaims, f \in BOOLEAN} :
        IsSafe(r.method) => Value(r, ex.source, ex.param) = Empty}

\* Mutant: token is a variable of New, shared by all invocations.
TokenFrame_Shared(s) == 0

\* Line 106: token is declared in the handler, one for every invocation.
TokenFrame(s) == s

\* Lines 101-104.
StepFilter(c, call) ==
    IF Bypassed(c, call.req)
    THEN [call EXCEPT !.w.nextCalls = @ + 1, !.pc = "done"]
    ELSE [call EXCEPT !.pc = "token"]

\* Lines 105-111, the effects other than the assignment to token.
StepToken(c, call, u) ==
    [call EXCEPT
        !.w.generated = IF Cookies(call.req, c.CookieName) = Empty
                        THEN <<u>> ELSE <<>>,
        !.pc = "validate"]

\* Mutant: the return after c.SendStatus(fiber.StatusForbidden) is missing.
StepValidate_NoReturn(ex, call, token) ==
    IF IsSafe(call.req.method) THEN [call EXCEPT !.pc = "cookie"]
    ELSE LET e == Extract(ex, call.req)
             c1 == [call EXCEPT !.w.extracted = <<e>>]
         IN IF e.err
            THEN [c1 EXCEPT !.w.status = 400, !.w.sends = @ + 1, !.pc = "done"]
            ELSE IF ConstantTimeCompare(token, e.token) # 1
                 THEN [c1 EXCEPT !.w.status = 403, !.w.sends = @ + 1,
                                 !.pc = "cookie"]
                 ELSE [c1 EXCEPT !.pc = "cookie"]

\* Lines 112-125.
StepValidate(ex, call, token) ==
    IF IsSafe(call.req.method) THEN [call EXCEPT !.pc = "cookie"]
    ELSE LET e == Extract(ex, call.req)
             c1 == [call EXCEPT !.w.extracted = <<e>>]
         IN IF e.err
            THEN [c1 EXCEPT !.w.status = 400, !.w.sends = @ + 1, !.pc = "done"]
            ELSE IF ConstantTimeCompare(token, e.token) # 1
                 THEN [c1 EXCEPT !.w.status = 403, !.w.sends = @ + 1,
                                 !.pc = "done"]
                 ELSE [c1 EXCEPT !.pc = "cookie"]

\* Lines 126-139.
StepCookie(c, call, token, now) ==
    [call EXCEPT !.w.cookies = Append(@, NewCookie(c, token, now)),
                 !.pc = "store"]

\* Lines 141-147.
StepStore(c, call, token) ==
    [call EXCEPT !.w.locals = Append(@, <<c.ContextKey, token>>),
                 !.w.vary = Append(@, "Cookie"),
                 !.w.nextCalls = @ + 1,
                 !.pc = "done"]

\* The handler is shared by the invocations after New has returned it.
InitConc ==
    /\ pc = "idle"
    /\ args \in ConcConfigs
    /\ cfg = ApplyDefaults(args)
    /\ extractor = SelectExtractor(Split(cfg.TokenLookup))
    /\ req = NoRequest
    /\ resp = NoResponse
    /\ other = NoOther
    /\ jar = EmptyJar
    /\ log = {}
    /\ calls = NoCalls
    /\ frames = NoFrames
    /\ cmp = NoCompare

\* The server invokes the handler on a request while others are in flight.
Begin(s) ==
    /\ pc = "idle"
    /\ calls[s].pc = "idle"
    /\ \E r \in ConcRequests(cfg, extractor) :
        /\ r.filter \in FilterResults
        /\ calls' = [calls EXCEPT ![s] = [pc |-> "filter", req |-> r, w |-> NoResponse]]
    /\ UNCHANGED <<pc, args, cfg, extractor, req, resp, other, jar, log, frames, cmp>>

RunFilter(s) ==
    /\ calls[s].pc = "filter"
    /\ calls' = [calls EXCEPT ![s] = StepFilter(cfg, @)]
    /\ UNCHANGED <<pc, args, cfg, extractor, req, resp, other, jar, log, frames, cmp>>

\* uuid.New() is called only when the cookie is empty.
RunToken(s) ==
    /\ calls[s].pc = "token"
    /\ LET key == Cookies(calls[s].req, cfg.CookieName)
       IN \E u \in IF key = Empty THEN UUIDs ELSE {Empty} :
            /\ calls' = [calls EXCEPT ![s] = StepToken(cfg, @, u)]
            /\ frames' = [frames EXCEPT ![TokenFrame(s)] = TokenSource(key, u)]
    /\ UNCHANGED <<pc, args, cfg, extractor, req, resp, other, jar, log, cmp>>

RunValidate(s) ==
    /\ calls[s].pc = "validate"
    /\ calls' = [calls EXCEPT ![s] = StepValidate(extractor, @, frames[TokenFrame(s)])]
    /\ UNCHANGED <<pc, args, cfg, extractor, req, resp, other, jar, log, frames, cmp>>

RunCookie(s) ==
    /\ calls[s].pc = "cookie"
    /\ \E now \in Times :
        calls' = [calls EXCEPT ![s] = StepCookie(cfg, @, frames[TokenFrame(s)], now)]
    /\ UNCHANGED <<pc, args, cfg, extractor, req, resp, other, jar, log, frames, cmp>>

RunStore(s) ==
    /\ calls[s].pc = "store"
    /\ calls' = [calls EXCEPT ![s] = StepStore(cfg, @, frames[TokenFrame(s)])]
    /\ UNCHANGED <<pc, args, cfg, extractor, req, resp, other, jar, log, frames, cmp>>

\* The next statement of invocation s.
Advance(s) ==
    RunFilter(s) \/ RunToken(s) \/ RunValidate(s) \/ RunCookie(s) \/ RunStore(s)

NextConc == \E s \in Slots : Begin(s) \/ Advance(s)

SpecConc == InitConc /\ [][NextConc]_vars

----------------------------------------------------------------------------
(* Vocabulary of the properties *)

Constructed == pc \in {"idle", "done"}
Handled == pc = "done"

\* The request was passed through by the bypass predicate.
Skipped == cfg.Filter /\ req.filter

SafeReq == req.method \in SafeMethods

\* The CSRF cookie of the request and the value at the configured location.
CookieIn == Value(req, "cookie", cfg.CookieName)
ClaimedIn == Value(req, extractor.source, extractor.param)

\* The expected token of the request: the cookie, else the generated token.
ExpectedToken ==
    IF CookieIn # Empty THEN CookieIn
    ELSE IF resp.generated # <<>> THEN resp.generated[1] ELSE Empty

WroteCookie(v) ==
    /\ Len(resp.cookies) = 1
    /\ resp.cookies[1].Name = cfg.CookieName
    /\ resp.cookies[1].Value = v

StoredContext(v) == resp.locals = <<(<<cfg.ContextKey, v>>)>>

\* Some status was sent / the request went on to the next handler.
Rejected == resp.status # 0
Accepted == resp.status = 0 /\ resp.nextCalls = 1 /\ Len(resp.cookies) = 1

----------------------------------------------------------------------------
(* C1 *)

\* C1 as stated: every request with a safe method is answered without 400
\* or 403 and gets the CSRF cookie and the context value, whatever the
\* cookie and the token source hold.
C1_SafeAlwaysCommits ==
    Handled /\ SafeReq =>
        /\ resp.status \notin {400, 403}
        /\ WroteCookie(ExpectedToken)
        /\ StoredContext(ExpectedToken)

\* C1 amended: the same for every request with a safe method that the
\* bypass predicate did not pass through.
C1_SafeNotSkippedCommits ==
    Handled /\ SafeReq /\ ~Skipped =>
        /\ resp.status \notin {400, 403}
        /\ WroteCookie(ExpectedToken)
        /\ StoredContext(ExpectedToken)

\* A TRACE request with a cookie and a different, non-empty token at the
\* configured location was committed.
C1_Witness ==
    /\ Handled /\ req.method = "TRACE" /\ ~Skipped
    /\ CookieIn # Empty /\ ClaimedIn # Empty /\ ClaimedIn # CookieIn
    /\ WroteCookie(CookieIn)

----------------------------------------------------------------------------
(* C2 *)

\* C2 as stated: a request with a non-safe method and nothing at the
\* configured location is answered with status 400, with or without cookie.
C2_MissingIs400 ==
    Handled /\ ~SafeReq /\ ClaimedIn = Empty => resp.status = 400

\* C2 amended: the same for requests the bypass predicate did not pass
\* through.
C2_MissingNotSkippedIs400 ==
    Handled /\ ~SafeReq /\ ~Skipped /\ ClaimedIn = Empty => resp.status = 400

\* A POST carrying the cookie but nothing at the configured location got 400.
C2_Witness ==
    /\ Handled /\ req.method = "POST" /\ ~Skipped
    /\ CookieIn # Empty /\ ClaimedIn = Empty
    /\ resp.status = 400

----------------------------------------------------------------------------
(* C3 *)

\* C3 as stated: a request with a non-safe method whose claimed token
\* differs from the expected token, an empty one against a non-empty one
\* included, is answered with status 403.
C3_MismatchIs403 ==
    Handled /\ ~SafeReq /\ ClaimedIn # ExpectedToken => resp.status = 403

\* C3 amended: a request with a non-safe method that was not passed through
\* by the bypass predicate and whose claimed token is non-empty and differs
\* from the expected token is answered with status 403.
C3_NonEmptyMismatchIs403 ==
    Handled /\ ~SafeReq /\ ~Skipped
        /\ ClaimedIn # Empty /\ ClaimedIn # ExpectedToken
    => resp.status = 403

\* A DELETE whose claimed token has the length of the cookie but another
\* value got 403.
C3_Witness ==
    /\ Handled /\ req.method = "DELETE" /\ ~Skipped
    /\ CookieIn # Empty /\ ClaimedIn # CookieIn
    /\ Len(ClaimedIn) = Len(CookieIn)
    /\ resp.status = 403

----------------------------------------------------------------------------
(* C4 *)

\* C4 as stated: a request with a non-safe method whose claimed token (a
\* value the extractor returns, hence non-empty) equals the value of the
\* CSRF cookie goes on to the next handler and gets a response cookie with
\* that value.
C4_EchoAccepted ==
    Handled /\ ~SafeReq /\ ClaimedIn # Empty /\ ClaimedIn = CookieIn =>
        /\ resp.status = 0
        /\ resp.nextCalls = 1
        /\ WroteCookie(CookieIn)

\* C4 amended: the same for requests the bypass predicate did not pass
\* through.
C4_NonEmptyEchoAccepted ==
    Handled /\ ~SafeReq /\ ~Skipped /\ ClaimedIn # Empty /\ ClaimedIn = CookieIn =>
        /\ resp.status = 0
        /\ resp.nextCalls = 1
        /\ WroteCookie(CookieIn)

\* A POST echoing a two-byte cookie value was accepted.
C4_Witness ==
    /\ Handled /\ req.method = "POST" /\ ~Skipped
    /\ Len(CookieIn) = 2 /\ ClaimedIn = CookieIn
    /\ resp.nextCalls = 1 /\ WroteCookie(CookieIn)

----------------------------------------------------------------------------
(* C6 *)

\* C6: a request for which the configured bypass predicate returns true
\* only reaches the next handler: no status, cookie, context value, Vary
\* header or generated token; any other request is not passed through: its
\* token is resolved and it ends in 400, 403 or a commit.
C6_BypassOnlyCallsNext ==
    Handled =>
        /\ Skipped => resp = [NoResponse EXCEPT !.nextCalls = 1]
        /\ ~Skipped =>
            /\ resp.generated # <<>> \/ CookieIn # Empty
            /\ resp.status \in {400, 403} \/ WroteCookie(ExpectedToken)

\* A POST without cookie and token was passed through by the predicate.
C6_Witness ==
    /\ Handled /\ Skipped /\ req.method = "POST"
    /\ CookieIn = Empty /\ ClaimedIn = Empty
    /\ resp.nextCalls = 1 /\ resp.status = 0

----------------------------------------------------------------------------
(* C7 *)

\* C7: construction never fails, whatever the token-lookup string, and the
\* filter extracts from the header unless the source is form, query or param.
C7_ConstructionNeverFails ==
    /\ pc # "panic"
    /\ Constructed /\ Split(cfg.TokenLookup)[1] \notin {"form", "query", "param"}
        => extractor.source = "header"

\* What holds instead: construction fails exactly for the lookup strings
\* without a colon.
C7_PanicsWithoutColon ==
    pc = "panic" <=> (pc # "new" /\ \A i \in DOMAIN cfg.TokenLookup : cfg.TokenLookup[i] # ":")

----------------------------------------------------------------------------
(* C9 *)

\* A lookup string of the form <source>:<key>.
SourceKeyForm(l) == Len(l) = 3 /\ l[1] # ":" /\ l[2] = ":" /\ l[3] # ":"

SelectedFor(l) ==
    [source |-> IF l[1] \in {"form", "query", "param"} THEN l[1] ELSE "header",
     param |-> l[3]]

\* C9: for a lookup string <source>:<key> the extractor selected by New
\* reads the form field, query parameter or path parameter <key> for the
\* sources form, query and param and the header <key> for any other source,
\* and it is the same for every request the handler serves.
C9_ExtractorSelection ==
    /\ [](Constructed /\ SourceKeyForm(cfg.TokenLookup) =>
            /\ extractor = SelectedFor(cfg.TokenLookup)
            /\ resp.extracted # <<>> =>
                 resp.extracted[1].token =
                    Value(req, SelectedFor(cfg.TokenLookup).source, cfg.TokenLookup[3]))
    /\ [][Constructed => extractor' = extractor /\ cfg' = cfg]_vars

\* With lookup param:k a request had its path parameter k extracted.
C9_Witness ==
    /\ Handled /\ cfg.TokenLookup = <<"param", ":", "k">>
    /\ resp.extracted # <<>>
    /\ resp.extracted[1].token = Value(req, "param", "k")
    /\ resp.extracted[1].token # Empty

----------------------------------------------------------------------------
(* C10 *)

Given == IF Len(args) > 0 THEN args[1] ELSE ZeroConfig

\* The resolved options other than the token length, and their use in the
\* cookie and the context value.
C10_OtherOptions ==
    Constructed =>
        /\ cfg.TokenLookup = IF Given.TokenLookup = <<>>
                             THEN <<"header", ":", "X-CSRF-Token">>
                             ELSE Given.TokenLookup
        /\ cfg.ContextKey = IF Given.ContextKey = "" THEN "csrf" ELSE Given.ContextKey
        /\ cfg.CookieName = IF Given.CookieName = "" THEN "_csrf" ELSE Given.CookieName
        /\ cfg.CookieMaxAge = IF Given.CookieMaxAge = 0 THEN 86400 ELSE Given.CookieMaxAge
        /\ \A o \in {"Filter", "CookieDomain", "CookiePath", "CookieSecure",
                     "CookieHTTPOnly"} : cfg[o] = Given[o]
        /\ Given.TokenLookup = <<>> =>
                extractor = [source |-> "header", param |-> "X-CSRF-Token"]
        /\ Handled /\ resp.cookies # <<>> =>
            /\ resp.cookies[1].Name = cfg.CookieName
            /\ resp.cookies[1].Path = Given.CookiePath
            /\ resp.cookies[1].Domain = Given.CookieDomain
            /\ resp.cookies[1].Secure = Given.CookieSecure
            /\ resp.cookies[1].HTTPOnly = Given.CookieHTTPOnly
            /\ (resp.cookies[1].Expires - cfg.CookieMaxAge) \in Times
            /\ resp.locals[1][1] = cfg.ContextKey

\* The token length in use: 32 when the option is zero, else the option.
TokenLengthInUse == IF Given.TokenLength = 0 THEN 32 ELSE Given.TokenLength

\* C10: every option left at its zero value takes its default (lookup
\* header:X-CSRF-Token, context key csrf, cookie name _csrf, max-age 86400,
\* token length 32), every other option is used as given, and cookie path
\* and domain are set only when non-empty.
C10_Defaults ==
    /\ C10_OtherOptions
    /\ Constructed => cfg.TokenLength = TokenLengthInUse
    /\ Handled /\ resp.generated # <<>> => Len(resp.generated[1]) = TokenLengthInUse

----------------------------------------------------------------------------
(* C5 *)

\* C5: in a session, where every request sends back the cookies of the
\* jar, all committed responses carry one token value, in the cookie and in
\* the context value, and a request accepted with a cookie gets that cookie
\* value again.
C5_NoRotation ==
    /\ Cardinality(log) <= 1
    /\ Handled /\ ~Skipped /\ resp.status = 0 /\ CookieIn # Empty =>
        /\ WroteCookie(CookieIn)
        /\ StoredContext(CookieIn)
        /\ log = {CookieIn}

\* A POST that echoes a token generated earlier in the session was
\* accepted, and the cookie was issued again with the same value.
C5_Witness ==
    /\ Handled /\ req.method = "POST" /\ ~Skipped
    /\ CookieIn \in UUIDs /\ ClaimedIn = CookieIn
    /\ WroteCookie(CookieIn) /\ StoredContext(CookieIn)
    /\ log = {CookieIn}

----------------------------------------------------------------------------
(* C8 *)

SkippedOther == cfg.Filter /\ other.req.filter

\* The two requests agree on method, CSRF cookie and configured location.
Agree ==
    /\ req.method = other.req.method
    /\ CookieIn = Value(other.req, "cookie", cfg.CookieName)
    /\ ClaimedIn = Value(other.req, extractor.source, extractor.param)

CookieValues(w) == [i \in DOMAIN w.cookies |-> w.cookies[i].Value]

\* With lookup query:<key> a token supplied only as a form field counts as
\* no token.
FormOnlyIs400 ==
    Handled /\ ~Skipped /\ ~SafeReq
        /\ extractor.source = "query" /\ Query(req, extractor.param) = Empty
    => resp.status = 400

\* C8 as stated: two requests that agree on method, CSRF cookie and the
\* value at the configured location have the same outcome: the same status
\* or acceptance and the same cookie value written.
C8_SameOutcome ==
    /\ Handled /\ Agree =>
        /\ resp.status = other.resp.status
        /\ resp.nextCalls = other.resp.nextCalls
        /\ CookieValues(resp) = CookieValues(other.resp)
    /\ FormOnlyIs400

\* C8 amended: two such requests, neither passed through by the bypass
\* predicate, end alike in 400, 403 or acceptance, and get the same cookie
\* value whenever they carry a CSRF cookie (without one, each gets a token
\* of its own).
C8_SameOutcomeGivenCookie ==
    /\ Handled /\ Agree /\ ~Skipped /\ ~SkippedOther =>
        /\ resp.status = other.resp.status
        /\ resp.nextCalls = other.resp.nextCalls
        /\ Len(resp.cookies) = Len(other.resp.cookies)
        /\ CookieIn # Empty => CookieValues(resp) = CookieValues(other.resp)
    /\ FormOnlyIs400

\* With lookup query:k, a POST with the cookie and its value in the form
\* field k only got 400, like the request without the form field.
C8_Witness ==
    /\ Handled /\ ~Skipped /\ ~SkippedOther /\ Agree
    /\ cfg.TokenLookup = <<"query", ":", "k">>
    /\ req.method = "POST" /\ CookieIn # Empty
    /\ FormValue(req, "k") = CookieIn
    /\ other.req.fields # req.fields
    /\ resp.status = 400 /\ other.resp.status = 400

----------------------------------------------------------------------------
(* C11 *)

\* The handler went through to the commit: not passed through by the
\* predicate and no status sent.
Committed == Handled /\ ~Skipped /\ resp.status = 0

\* C11: in every committed request the cookie written under the configured
\* name, the value stored under the configured context key and the
\* expected token are the same string, Cookie is added to Vary, and without
\* a request cookie the value is the newly generated token.
C11_CommitCarriesExpectedToken ==
    Committed =>
        /\ WroteCookie(ExpectedToken)
        /\ StoredContext(ExpectedToken)
        /\ resp.vary = <<"Cookie">>
        /\ CookieIn = Empty =>
            /\ resp.generated # <<>>
            /\ resp.cookies[1].Value = resp.generated[1]
            /\ resp.locals[1][2] = resp.generated[1]

\* A GET without cookie was committed with a generated token.
C11_Witness ==
    /\ Committed /\ req.method = "GET" /\ CookieIn = Empty
    /\ resp.generated # <<>> /\ resp.generated[1] \in UUIDs
    /\ WroteCookie(resp.generated[1])
    /\ resp.vary = <<"Cookie">>

----------------------------------------------------------------------------
(* C12 *)

Compared == cmp.pc = "compared"

\* The first position at which x and y differ, 0 when there is none.
FirstMismatch(x, y) ==
    LET D == {i \in 1..Len(x) : x[i] # y[i]}
    IN IF D = {} THEN 0 ELSE CHOOSE i \in D : \A j \in D : i <= j

----------------------------------------------------------------------------
(* C13 *)

\* C13: for a request not passed through by the predicate a token is
\* generated exactly when the configured cookie is absent or empty;
\* otherwise the cookie value, whatever it is, is the expected token: it is
\* what a commit writes and what the claimed token must equal.
C13_TokenSource ==
    Handled /\ ~Skipped =>
        /\ resp.generated # <<>> <=> CookieIn = Empty
        /\ CookieIn # Empty =>
            /\ resp.status = 0 => WroteCookie(CookieIn) /\ StoredContext(CookieIn)
            /\ ~SafeReq /\ ClaimedIn # Empty =>
                 (resp.status = 0 <=> ClaimedIn = CookieIn)

\* A cookie value no filter ever generated was taken as the expected token
\* and written back.
C13_Witness ==
    /\ Handled /\ ~Skipped /\ req.method = "GET"
    /\ CookieIn = <<1, 2>> /\ CookieIn \notin UUIDs
    /\ resp.generated = <<>>
    /\ WroteCookie(<<1, 2>>)

----------------------------------------------------------------------------
(* C14 *)

\* C14: a request answered with 400 or 403 has no cookie written, no
\* context value stored, no Vary header added and the next handler not
\* called; a token generated for it appears nowhere in the response.
C14_RejectionLeavesNoTrace ==
    Handled /\ resp.status \in {400, 403} =>
        /\ resp.cookies = <<>>
        /\ resp.locals = <<>>
        /\ resp.vary = <<>>
        /\ resp.nextCalls = 0
        /\ \A i \in DOMAIN resp.generated : resp.generated[i] \notin TokensOf(resp)

\* A POST without cookie got 403 after a token had been generated for it.
C14_Witness ==
    /\ Handled /\ req.method = "POST" /\ resp.status = 403
    /\ CookieIn = Empty /\ resp.generated # <<>>
    /\ resp.cookies = <<>> /\ resp.nextCalls = 0

----------------------------------------------------------------------------
(* C15 *)

\* The invocation ended as the handler run alone on its request ends.
Alone(call) ==
    \E u \in UUIDs \cup {Empty}, now \in Times :
        call.w = Handler(cfg, extractor, call.req, u, now)

InFlight(s) == calls[s].pc \notin {"idle", "done"}

\* C15: under every interleaving of the invocations in flight, each ends
\* with the outcome and the cookie and context value it has when run alone,
\* and no step of an invocation changes the resolved configuration or the
\* selected extractor.
C15_NoInterference ==
    /\ [](\A s \in Slots : calls[s].pc = "done" => Alone(calls[s]))
    /\ [][cfg' = cfg /\ extractor' = extractor]_vars

\* An invocation that generated its token was committed with it while
\* another, holding a different token, was between its cookie and its
\* context write.
C15_Witness ==
    /\ calls[1].pc = "done" /\ calls[1].w.generated # <<>>
    /\ Len(calls[1].w.cookies) = 1
    /\ calls[1].w.cookies[1].Value = calls[1].w.generated[1]
    /\ calls[2].pc = "store"
    /\ calls[2].w.cookies[1].Value = <<1>>

----------------------------------------------------------------------------
(* C18 *)

\* The outcomes the effects w are those of.
OutcomesOf(w) ==
    {o \in {"bypass", "400", "403", "accept"} :
        \/ o = "bypass" /\ w.status = 0 /\ w.nextCalls > 0 /\ w.cookies = <<>>
        \/ o = "400" /\ w.status = 400
        \/ o = "403" /\ w.status = 403
        \/ o = "accept" /\ w.status = 0 /\ w.nextCalls > 0 /\ w.cookies # <<>>}

\* The statements of the handler in the order of the source.
Rank(p) ==
    CASE p = "idle" -> 0
      [] p = "filter" -> 1
      [] p = "token" -> 2
      [] p = "validate" -> 3
      [] p = "cookie" -> 4
      [] p = "store" -> 5
      [] p = "done" -> 6

\* C18: every invocation terminates (it always has a next statement and
\* every statement moves it forward in the source) in exactly one of the
\* four outcomes, having called exactly one of c.SendStatus and c.Next,
\* and that one once; before the end it has called neither.
C18_OneOutcome ==
    /\ [](\A s \in Slots :
            /\ calls[s].pc = "done" =>
                /\ Cardinality(OutcomesOf(calls[s].w)) = 1
                /\ calls[s].w.sends + calls[s].w.nextCalls = 1
                /\ calls[s].w.sends = 1 <=> calls[s].w.status \in {400, 403}
            /\ InFlight(s) =>
                /\ ENABLED Advance(s)
                /\ calls[s].w.sends + calls[s].w.nextCalls = 0)
    /\ [][\A s \in Slots :
            calls'[s] # calls[s] => Rank(calls'[s].pc) > Rank(calls[s].pc)]_vars

\* With the predicate configured, one invocation ended in 403, having sent
\* the status once, and another was passed through to the next handler.
C18_Witness ==
    /\ cfg.Filter
    /\ calls[1].pc = "done" /\ OutcomesOf(calls[1].w) = {"403"}
    /\ calls[1].w.sends = 1 /\ calls[1].w.nextCalls = 0
    /\ calls[2].pc = "done" /\ OutcomesOf(calls[2].w) = {"bypass"}
    /\ calls[2].w.sends = 0 /\ calls[2].w.nextCalls = 1

----------------------------------------------------------------------------
(* C16 *)

\* C16: a request with a non-safe method that reaches the next handler
\* without being passed through by the predicate carried, at the configured
\* location, a non-empty value of the length and the bytes of the expected
\* token.
C16_AcceptedImpliesEcho ==
    Handled /\ ~Skipped /\ ~SafeReq /\ resp.nextCalls > 0 =>
        /\ ClaimedIn # Empty
        /\ Len(ClaimedIn) = Len(ExpectedToken)
        /\ \A i \in 1..Len(ClaimedIn) : ClaimedIn[i] = ExpectedToken[i]

\* A DELETE echoing a one-byte cookie reached the next handler.
C16_Witness ==
    /\ Handled /\ ~Skipped /\ req.method = "DELETE"
    /\ resp.nextCalls = 1
    /\ Len(CookieIn) = 1 /\ ClaimedIn = CookieIn

----------------------------------------------------------------------------
(* C17 *)

\* C17: a request with a non-safe method and no CSRF cookie, not passed
\* through by the predicate, is never accepted: a token is generated for
\* it, it gets 400 when the configured location is empty and 403 otherwise,
\* and no cookie is issued.
C17_NoCookieNeverAccepted ==
    Handled /\ ~Skipped /\ ~SafeReq /\ CookieIn = Empty =>
        /\ resp.generated # <<>>
        /\ resp.nextCalls = 0
        /\ resp.cookies = <<>>
        /\ ClaimedIn = Empty => resp.status = 400
        /\ ClaimedIn # Empty => resp.status = 403

\* A DELETE without cookie but with a token got 403 and no cookie.
C17_Witness ==
    /\ Handled /\ ~Skipped /\ req.method = "DELETE"
    /\ CookieIn = Empty /\ ClaimedIn # Empty
    /\ resp.status = 403 /\ resp.cookies = <<>>
    /\ resp.generated # <<>>

=============================================================================
